---- MODULE Spec2Model ----
(***************************************************************************)
(* One call of vision_ai_tools.video_adaptive_compress.adaptive_compress_- *)
(* video: argument validation, tool verification, codec choice, input      *)
(* preparation, probe, the three-stage encode search with codec fallback,  *)
(* and the promotion of the accepted attempt through PreparedOutput.       *)
(* Spec is that call.  SpecCandidates is the construction of the two       *)
(* candidate lists alone, and SpecBitrate the bitrate attempt alone, each  *)
(* over more inputs than the whole call ranges over.  SpecPrepared is the  *)
(* pair of context managers PreparedInput and PreparedOutput as a tool     *)
(* nests them.  SpecMain is the command line entry point main around the   *)
(* call.  SpecSearch is the call for valid arguments with any number of    *)
(* attempts recovered by the fallback codec, and SpecSearchFair the same   *)
(* with the fairness of a sequential program.                              *)
(*                                                                         *)
(* Conventions.  An Optional value is a set with at most one element:      *)
(* None is {} and a present value v is {v}.  Frame rates are whole frames  *)
(* per second, durations are hundredths of a second, target_mb is counted  *)
(* in units of 1/2097152 MiB (half a byte), so that                        *)
(* int(target_mb * 1024 * 1024) is the truncating division by two.         *)
(* A video bitrate string "<n>k" is represented by the number n.           *)
(* The audio bitrate string is the sequence of its characters, which the   *)
(* parse of lines 353-362 reads one by one; numbers are exact, where the   *)
(* code computes in double precision.                                      *)
(***************************************************************************)
EXTENDS Integers, Sequences, FiniteSets, TLC

\* ------------------------------------------------------------------ bounds

\* Attempts of one run that may fail on the preferred codec and recover on
\* the fallback codec.  A fatal failure is always possible.
MaxRecovered == 1

\* ------------------------------------------------------------------ helpers

None == {}

Some(x) == {x}

Val(o) == CHOOSE x \in o : TRUE

Max(a, b) == IF a >= b THEN a ELSE b

Contains(seq, e) == \E i \in 1..Len(seq) : seq[i] = e

\* ------------------------------------------------------ the input domains

\* Arguments of a call.  target_bytes / target_mb: absent, non-positive,
\* positive.  target_mb = 1 is half a byte (positive, truncates to 0 bytes);
\* target_mb = 1201 is 600.5 bytes.
TargetBytesArgs == {None, Some(0), Some(600)}

TargetMbArgs == {None, Some(0), Some(1), Some(1201)}

VideoCodecArgs == {"auto", "libx264", " LIBX265", "vp9"}

MinFpsArgs == {0, 8, 20}

MinHeightArgs == {0, 480, 800}

TimeoutArgs == {0, 30}

\* The destination is a local path or an s3:// URL.  Nothing reads it before
\* the promotion of the accepted attempt (lines 175 and 235-236 only name
\* it for the result), so its kind is drawn where PreparedOutput reads it.
OutputArgs == {"local", "s3"}

InputArgs == {"local", "remote"}

\* What ffprobe may report.
ProbeResults ==
    [has_video : BOOLEAN,
     duration_s : {None, Some(0), Some(1000)},
     video_fps : {None, Some(10)},
     video_height : {None, Some(720), Some(4320)}]

\* Sizes an encode may produce: exactly at and just above a budget of 600
\* bytes.
Sizes == {600, 601}

\* _run_ffmpeg (lines 38-44) raises ValueError in two cases: subprocess.run
\* times out, or ffmpeg exits non-zero.  The non-zero exit of interest is the
\* requested encoder not being available; any other ffmpeg failure takes the
\* same except branch and is not told apart by the code.
Failures == {"timeout", "unavailable"}

\* --------------------------------------------------------------- _pick_codec

\* (auto_codec or "auto").strip().lower()
Normalize(auto_codec) ==
    CASE auto_codec = "" -> "auto"
      [] auto_codec = " LIBX265" -> "libx265"
      [] OTHER -> auto_codec

PickCodecAcceptsAny(auto_codec) ==
    LET c == Normalize(auto_codec) IN
    IF c = "auto"
    THEN [ok |-> TRUE, preferred |-> "libx265", fallback |-> Some("libx264")]
    ELSE [ok |-> TRUE, preferred |-> c, fallback |-> None]

\* Return (preferred, fallback); ok = FALSE stands for the ValueError.
_pick_codec(auto_codec) ==
    LET c == Normalize(auto_codec) IN
    IF c = "auto"
    THEN [ok |-> TRUE, preferred |-> "libx265", fallback |-> Some("libx264")]
    ELSE IF c \in {"libx265", "libx264"}
    THEN [ok |-> TRUE, preferred |-> c, fallback |-> None]
    ELSE [ok |-> FALSE, preferred |-> "", fallback |-> None]

\* ------------------------------------------------------- candidate ladders

RECURSIVE FpsLoopKeepsDuplicates(_, _, _)
FpsLoopKeepsDuplicates(ladder, input_fps, acc) ==
    IF ladder = << >> THEN acc
    ELSE LET f == Head(ladder) IN
         FpsLoopKeepsDuplicates(Tail(ladder), input_fps,
                                IF f < input_fps THEN Append(acc, Some(f)) ELSE acc)

\* Lines 190-193.
RECURSIVE FpsLoop(_, _, _)
FpsLoop(ladder, input_fps, acc) ==
    IF ladder = << >> THEN acc
    ELSE LET f == Head(ladder) IN
         FpsLoop(Tail(ladder), input_fps,
                 IF f < input_fps /\ ~Contains(acc, Some(f))
                 THEN Append(acc, Some(f)) ELSE acc)

FpsLadderWithTwenty(input_fps, min_fps) ==
    LET looped == FpsLoop(<<24, 20, 15, 12, min_fps>>, input_fps, <<None>>) IN
    IF min_fps < input_fps /\ ~Contains(looped, Some(min_fps))
    THEN Append(looped, Some(min_fps)) ELSE looped

\* Lines 190-196.
fps_candidates(input_fps, min_fps) ==
    LET looped == FpsLoop(<<24, 15, 12, min_fps>>, input_fps, <<None>>) IN
    IF min_fps < input_fps /\ ~Contains(looped, Some(min_fps))
    THEN Append(looped, Some(min_fps)) ELSE looped

RECURSIVE HeightLoopNoFloor(_, _, _, _)
HeightLoopNoFloor(ladder, input_h, min_height, acc) ==
    IF ladder = << >> THEN acc
    ELSE LET h == Head(ladder) IN
         HeightLoopNoFloor(Tail(ladder), input_h, min_height,
                           IF input_h # 0 /\ h < input_h /\ ~Contains(acc, Some(h))
                           THEN Append(acc, Some(h)) ELSE acc)

\* Lines 199-201.
RECURSIVE HeightLoop(_, _, _, _)
HeightLoop(ladder, input_h, min_height, acc) ==
    IF ladder = << >> THEN acc
    ELSE LET h == Head(ladder) IN
         HeightLoop(Tail(ladder), input_h, min_height,
                    IF input_h # 0 /\ h < input_h /\ h >= min_height
                       /\ ~Contains(acc, Some(h))
                    THEN Append(acc, Some(h)) ELSE acc)

\* Lines 199-204.
height_candidates(input_h, min_height) ==
    LET looped == HeightLoop(<<2160, 1440, 1080, 720, min_height>>,
                             input_h, min_height, <<None>>) IN
    IF input_h # 0 /\ min_height < input_h /\ ~Contains(looped, Some(min_height))
    THEN Append(looped, Some(min_height)) ELSE looped

\* ------------------------------------------------------------------- state

VARIABLES
    args,          \* the arguments of the call
    pc,            \* where the call is
    target_bytes,  \* the local target_bytes after lines 154-162
    codecs,        \* (preferred_codec, fallback_codec) of line 174
    inTemp,        \* PreparedInput holds a temp dir with a downloaded file
    probeCalls,    \* calls of probe.probe_video
    p,             \* the ProbeResult, once probed
    fpsC,          \* fps_candidates
    heightC,       \* height_candidates
    stage,         \* 1, 2, 3: the stage of the attempt in progress
    idx,           \* index of the candidate of the attempt in progress
    phase,         \* "preferred" or "fallback": next encode of the attempt
    last_fps,      \* Optional
    last_height,   \* Optional
    attempts,      \* the attempt log
    calls,         \* every _encode_once invocation, in order
    scratch,       \* size of temp_out, the reused scratch file (Optional)
    outTemp,       \* PreparedOutput's temp dir exists
    dest,          \* what the caller-visible destination holds (Optional size)
    uploads,       \* completed uploads to the s3:// destination
    result,        \* the returned dict (Optional)
    error,         \* the exception that left the call (Optional)
    video_bps,     \* the local target_video_bps of line 365 (Optional)
    inp,           \* PreparedInput: input_file, a local file exists at
                   \* input_path; local_in, the value __enter__ returned;
                   \* _local_path, the attribute; file, the file at
                   \* _local_path exists
    outp,          \* PreparedOutput: local_path, the OutputResult.local_path
                   \* __enter__ returned; _local_path, the attribute; file,
                   \* the file at _local_path exists; upload_calls, the calls
                   \* of s3.upload_path_to_s3
    exit_code      \* what main returned, or the SystemExit of argparse
                   \* (Optional)

vars == <<args, pc, target_bytes, codecs, inTemp, probeCalls, p, fpsC, heightC,
          stage, idx, phase, last_fps, last_height, attempts, calls, scratch,
          outTemp, dest, uploads, result, error, video_bps, inp, outp,
          exit_code>>

Args ==
    [target_bytes : TargetBytesArgs, target_mb : TargetMbArgs,
     video_codec : VideoCodecArgs, crf : {28}, audio_bitrate : {<<"1", "2", "8", "k">>},
     min_fps : MinFpsArgs, min_height : MinHeightArgs, timeout_s : TimeoutArgs,
     input_path : InputArgs]

NoProbe == [has_video |-> FALSE, duration_s |-> None, video_fps |-> None,
            video_height |-> None]

NoCodecs == [ok |-> FALSE, preferred |-> "", fallback |-> None]

\* PreparedOutput before __enter__ (outputs.py, lines 37-48).
NoOutput == [local_path |-> None, _local_path |-> None, file |-> FALSE,
             upload_calls |-> 0]

\* PreparedInput of a local file after __enter__ (inputs.py, lines 77-78).
LocalInput == [input_file |-> TRUE, local_in |-> Some("input_path"),
               _local_path |-> None, file |-> FALSE]

\* Lines 154-174 have not run.
Unvalidated ==
    /\ target_bytes = None
    /\ codecs = NoCodecs

\* Neither with block has been entered.
Unprepared ==
    /\ inTemp = FALSE
    /\ inp = [input_file |-> args.input_path = "local", local_in |-> None,
              _local_path |-> None, file |-> FALSE]
    /\ outTemp = FALSE
    /\ outp = NoOutput
    /\ dest = None
    /\ uploads = 0

\* Line 180 has not run.
Unprobed ==
    /\ probeCalls = 0
    /\ p = NoProbe
    /\ fpsC = << >>
    /\ heightC = << >>

\* The search of lines 272-402 has not begun.
Unsearched ==
    /\ stage = 0
    /\ idx = 0
    /\ phase = "preferred"
    /\ last_fps = None
    /\ last_height = None
    /\ attempts = << >>
    /\ calls = << >>
    /\ scratch = None
    /\ video_bps = None

\* The call has neither returned nor raised.
Running ==
    /\ result = None
    /\ error = None
    /\ exit_code = None

Init ==
    /\ args \in Args
    /\ pc = "call"
    /\ Unvalidated
    /\ Unprepared
    /\ Unprobed
    /\ Unsearched
    /\ Running

\* An exception leaves adaptive_compress_video.
Raise(e) ==
    /\ pc' = "raised"
    /\ error' = Some(e)

\* ------------------------------------------------- lines 154-168: arguments

\* The local target_bytes after lines 156-160.
ConvertedTarget(a) ==
    IF a.target_mb # None THEN Some(Val(a.target_mb) \div 2) ELSE a.target_bytes

ArgsErrorAllowsBoth(a) ==
    IF a.target_bytes = None /\ a.target_mb = None THEN Some("exactly_one")
    ELSE IF a.target_mb # None /\ Val(a.target_mb) <= 0 THEN Some("target_mb")
    ELSE IF Val(ConvertedTarget(a)) <= 0 THEN Some("target_bytes")
    ELSE IF a.min_fps <= 0 THEN Some("min_fps")
    ELSE IF a.min_height <= 0 THEN Some("min_height")
    ELSE IF a.timeout_s <= 0 THEN Some("timeout_s")
    ELSE None

\* The first check of lines 154-168 that raises, if any.
ArgsError(a) ==
    IF (a.target_bytes = None) = (a.target_mb = None) THEN Some("exactly_one")
    ELSE IF a.target_mb # None /\ Val(a.target_mb) <= 0 THEN Some("target_mb")
    ELSE IF Val(ConvertedTarget(a)) <= 0 THEN Some("target_bytes")
    ELSE IF a.min_fps <= 0 THEN Some("min_fps")
    ELSE IF a.min_height <= 0 THEN Some("min_height")
    ELSE IF a.timeout_s <= 0 THEN Some("timeout_s")
    ELSE None

ValidateArgs ==
    /\ pc = "call"
    /\ IF ArgsError(args) # None
       THEN /\ Raise(Val(ArgsError(args)))
            /\ UNCHANGED target_bytes
       ELSE /\ pc' = "tools"
            /\ target_bytes' = ConvertedTarget(args)
            /\ UNCHANGED error
    /\ UNCHANGED <<args, exit_code, codecs, inTemp, probeCalls, p, fpsC, heightC, stage,
                   idx, phase, last_fps, last_height, attempts, calls, scratch,
                   outTemp, dest, uploads, result, video_bps, inp, outp>>

\* Lines 170-172: ffmpeg.verify_ffmpeg_tools raises when a binary cannot run.
VerifyTools ==
    /\ pc = "tools"
    /\ \E ok \in BOOLEAN :
          IF ok THEN pc' = "pick" /\ UNCHANGED error
          ELSE Raise("tools")
    /\ UNCHANGED <<args, exit_code, target_bytes, codecs, inTemp, probeCalls, p, fpsC,
                   heightC, stage, idx, phase, last_fps, last_height, attempts,
                   calls, scratch, outTemp, dest, uploads, result, video_bps,
                   inp, outp>>

\* Lines 174-177.
PickCodec ==
    /\ pc = "pick"
    /\ LET c == _pick_codec(args.video_codec) IN
       IF c.ok THEN /\ codecs' = c
                    /\ pc' = "input"
                    /\ UNCHANGED error
       ELSE /\ Raise("video_codec")
            /\ UNCHANGED codecs
    /\ UNCHANGED <<args, exit_code, target_bytes, inTemp, probeCalls, p, fpsC, heightC,
                   stage, idx, phase, last_fps, last_height, attempts, calls,
                   scratch, outTemp, dest, uploads, result, video_bps, inp, outp>>

InputCleanedOnSuccess(i) ==
    IF error = None /\ i._local_path = Some("temp") THEN [i EXCEPT !.file = FALSE]
    ELSE i

\* PreparedInput.__exit__ (inputs.py, lines 105-111): the file at
\* _local_path, if the attribute is set and the file exists, is removed,
\* whatever the exception; lines 112-117 then remove the temp dir, which
\* os.rmdir does when it is empty.
InputCleaned(i) ==
    CASE i._local_path = Some("temp") -> [i EXCEPT !.file = FALSE]
      [] i._local_path = Some("input_path") -> [i EXCEPT !.input_file = FALSE]
      [] OTHER -> i

\* Leaving the with-statements of lines 179 and 233 (return or exception):
\* PreparedInput.__exit__ removes a downloaded file and its directory, and the
\* TemporaryDirectory with the scratch file is removed.
LeaveWithBlocks ==
    /\ inp' = InputCleaned(inp)
    /\ inTemp' = (inTemp /\ InputCleaned(inp).file)
    /\ scratch' = None

\* Line 179, PreparedInput.__enter__ in download mode: a local file is
\* returned as it is; a remote input is downloaded into a fresh temp dir, and
\* a failed download raises out of __enter__ (no __exit__ runs).
EnterInput ==
    /\ pc = "input"
    /\ IF args.input_path = "local"
       THEN /\ pc' = "probe"
            /\ inp' = [inp EXCEPT !.local_in = Some("input_path")]
            /\ UNCHANGED <<inTemp, error>>
       ELSE \E downloaded \in BOOLEAN :
               /\ inTemp' = TRUE
               /\ IF downloaded
                  THEN /\ pc' = "probe"
                       /\ inp' = [inp EXCEPT !.local_in = Some("temp"),
                                             !._local_path = Some("temp"),
                                             !.file = TRUE]
                       /\ UNCHANGED error
                  ELSE /\ Raise("download")
                       /\ inp' = [inp EXCEPT !._local_path = Some("temp")]
    /\ UNCHANGED <<args, exit_code, target_bytes, codecs, probeCalls, p, fpsC, heightC,
                   stage, idx, phase, last_fps, last_height, attempts, calls,
                   scratch, outTemp, dest, uploads, result, video_bps, outp>>

\* Line 186: p.video_fps or 30.0
input_fps(pr) == IF pr.video_fps = None \/ pr.video_fps = Some(0) THEN 30 ELSE Val(pr.video_fps)

InputHeightDefaults(pr) == IF pr.video_height = None THEN 1080 ELSE Val(pr.video_height)

\* Line 187: p.video_height or 0
input_h(pr) == IF pr.video_height = None THEN 0 ELSE Val(pr.video_height)

ProbeErrorIgnoresDuration(pr) ==
    IF ~pr.has_video THEN Some("no_video") ELSE None

\* Lines 181-184.
ProbeError(pr) ==
    IF ~pr.has_video THEN Some("no_video")
    ELSE IF pr.duration_s = None \/ Val(pr.duration_s) <= 0 THEN Some("duration")
    ELSE None

\* Lines 180-204 and 273: probe, reject, build the two candidate lists.
ProbeInput ==
    /\ pc = "probe"
    /\ probeCalls' = probeCalls + 1
    /\ \/ \* probe_video itself raises (ffprobe failed or timed out)
          /\ Raise("ffprobe")
          /\ LeaveWithBlocks
          /\ UNCHANGED <<p, fpsC, heightC, stage, idx>>
       \/ \E pr \in ProbeResults :
             /\ p' = pr
             /\ IF ProbeError(pr) # None
                THEN /\ Raise(Val(ProbeError(pr)))
                     /\ LeaveWithBlocks
                     /\ UNCHANGED <<fpsC, heightC, stage, idx>>
                ELSE /\ fpsC' = fps_candidates(input_fps(pr), args.min_fps)
                     /\ heightC' = height_candidates(input_h(pr), args.min_height)
                     /\ stage' = 1
                     /\ idx' = 1
                     /\ pc' = "encode"
                     /\ UNCHANGED <<inTemp, inp, scratch, error>>
    /\ UNCHANGED <<args, exit_code, target_bytes, codecs, phase, last_fps, last_height,
                   attempts, calls, outTemp, dest, uploads, result, video_bps,
                   outp>>

\* ------------------------------------------------ stage 3: the video bitrate

Digits == <<"0", "1", "2", "3", "4", "5", "6", "7", "8", "9">>

IsDigit(c) == \E d \in 1..10 : Digits[d] = c

DigitOf(c) == (CHOOSE d \in 1..10 : Digits[d] = c) - 1

AllDigits(s) == \A i \in 1..Len(s) : IsDigit(s[i])

\* The number a string of digits denotes; 0 for the empty string.
RECURSIVE Number(_)
Number(s) ==
    IF s = << >> THEN 0
    ELSE Number(SubSeq(s, 1, Len(s) - 1)) * 10 + DigitOf(s[Len(s)])

RECURSIVE Pow10(_)
Pow10(k) == IF k = 0 THEN 1 ELSE 10 * Pow10(k - 1)

\* str.lower() on the characters a bitrate suffix is made of.
Lower(c) == CASE c = "K" -> "k" [] c = "M" -> "m" [] OTHER -> c

Signed(s) == s # << >> /\ Head(s) \in {"-", "+"}

Unsigned(s) == IF Signed(s) THEN Tail(s) ELSE s

Sign(s) == IF s # << >> /\ Head(s) = "-" THEN -1 ELSE 1

\* int(s) of line 360: an optional sign and digits; None for ValueError.
ParseInt(s) ==
    LET u == Unsigned(s) IN
    IF u # << >> /\ AllDigits(u) THEN Some(Sign(s) * Number(u)) ELSE None

\* int(float(s) * unit) of lines 356, 358: an optional sign, digits, and at
\* most one point with digits on either side of it, at least one digit in
\* all; int() truncates towards zero.  None for ValueError.
ParseScaled(s, unit) ==
    LET u == Unsigned(s)
        points == {i \in 1..Len(u) : u[i] = "."}
        dot == IF points = {} THEN Len(u) + 1 ELSE CHOOSE i \in points : TRUE
        whole == SubSeq(u, 1, dot - 1)
        frac == SubSeq(u, dot + 1, Len(u))
    IN
    IF /\ Cardinality(points) <= 1
       /\ AllDigits(whole) /\ AllDigits(frac)
       /\ Len(whole) + Len(frac) > 0
    THEN Some(Sign(s) * (((Number(whole) * Pow10(Len(frac)) + Number(frac)) * unit)
                           \div Pow10(Len(frac))))
    ELSE None

AudioBpsIgnoresMega(audio_bitrate) ==
    LET n == Len(audio_bitrate)
        parsed ==
            IF n > 0 /\ Lower(audio_bitrate[n]) \in {"k", "m"}
            THEN ParseScaled(SubSeq(audio_bitrate, 1, n - 1), 1000)
            ELSE ParseInt(audio_bitrate)
    IN
    IF parsed = None THEN 128000 ELSE Val(parsed)

\* Lines 353-362: a trailing k multiplies by 1000, a trailing m by 1000000,
\* anything else is read as an integer; what does not parse is 128000.
a_bps(audio_bitrate) ==
    LET n == Len(audio_bitrate)
        parsed ==
            IF n > 0 /\ Lower(audio_bitrate[n]) = "k"
            THEN ParseScaled(SubSeq(audio_bitrate, 1, n - 1), 1000)
            ELSE IF n > 0 /\ Lower(audio_bitrate[n]) = "m"
            THEN ParseScaled(SubSeq(audio_bitrate, 1, n - 1), 1000000)
            ELSE ParseInt(audio_bitrate)
    IN
    IF parsed = None THEN 128000 ELSE Val(parsed)

\* Line 350: int(target_bytes * 8 / max(0.1, duration)), duration in
\* hundredths of a second.
total_bps(target, duration) == (target * 8 * 100) \div Max(10, duration)

\* Line 365: max(200_000, int(total_bps * 0.95) - a_bps)
target_video_bps(target, duration, audio_bitrate) ==
    Max(200000, ((total_bps(target, duration) * 95) \div 100) - a_bps(audio_bitrate))

\* Lines 349-365 in stage 3 of the call in progress.
StageThreeBps == target_video_bps(Val(target_bytes), Val(p.duration_s), args.audio_bitrate)

\* Line 366: f"{int(target_video_bps/1000)}k", as the number before the k.
v_bitrate == StageThreeBps \div 1000

\* ------------------------------------------------- the attempt in progress

StageThreeKeepsUnsetFps ==
    CASE stage = 1 -> fpsC[idx]
      [] OTHER -> last_fps

\* fps_value passed to encode_with_codec_fallback (lines 276, 314, 369).
CurFps ==
    CASE stage = 1 -> fpsC[idx]
      [] stage = 2 -> last_fps
      [] OTHER -> IF last_fps # None THEN last_fps ELSE Some(args.min_fps)

\* height_value passed to encode_with_codec_fallback (lines 277, 315, 370).
CurHeight ==
    CASE stage = 1 -> None
      [] stage = 2 -> heightC[idx]
      [] OTHER -> IF last_height # None THEN last_height
                  ELSE IF input_h(p) # 0 /\ input_h(p) > args.min_height
                       THEN Some(args.min_height) ELSE None

\* crf_value and v_bitrate passed (lines 278-279, 316-317, 371-372).
CrfKeptInStageThree == Some(args.crf)

CurCrf == IF stage = 3 THEN None ELSE Some(args.crf)

CurBitrate == IF stage = 3 THEN Some(v_bitrate) ELSE None

\* One _encode_once invocation (lines 216-231), as the encoder saw it.
Call(codec, outcome) ==
    [attempt |-> Len(attempts) + 1, stage |-> stage, chosen_vcodec |-> codec,
     fps |-> CurFps, height |-> CurHeight, crf |-> CurCrf,
     video_bitrate |-> CurBitrate, audio_bitrate |-> args.audio_bitrate,
     outcome |-> outcome]

AttemptDropsStageThreeHeight(codec, size) ==
    [fps |-> CurFps,
     height |-> IF stage = 3 THEN None ELSE CurHeight,
     video_codec |-> codec, crf |-> CurCrf, video_bitrate |-> CurBitrate,
     audio_bitrate |-> args.audio_bitrate, output_bytes |-> size]

\* The Attempt appended after a successful encode (lines 282-292, 320-330,
\* 375-385).
Attempt(codec, size) ==
    [fps |-> CurFps,
     height |-> IF stage = 3 THEN last_height ELSE CurHeight,
     video_codec |-> codec, crf |-> CurCrf, video_bitrate |-> CurBitrate,
     audio_bitrate |-> args.audio_bitrate, output_bytes |-> size]

FitsStrictly(size) == size < Val(target_bytes)

\* Lines 294 and 332: size <= target_bytes
Fits(size) == size <= Val(target_bytes)

AcceptedOnlyWhenFits(size) == Fits(size)

\* The attempt ends the search: a fit in stages 1-2, or the stage-3 attempt
\* whatever its size (lines 387-390).
Accepted(size) == stage = 3 \/ Fits(size)

NextCandidateNoSkip ==
    IF stage = 1 /\ idx < Len(fpsC) THEN [stage |-> 1, idx |-> idx + 1]
    ELSE IF stage = 1 THEN [stage |-> 2, idx |-> 1]
    ELSE IF stage = 2 /\ idx < Len(heightC) THEN [stage |-> 2, idx |-> idx + 1]
    ELSE [stage |-> 3, idx |-> 1]

\* The candidate after the current one: the for loops of lines 274 and 312
\* (height_candidates[1:] skips the leading keep), then stage 3.
NextCandidate ==
    IF stage = 1 /\ idx < Len(fpsC) THEN [stage |-> 1, idx |-> idx + 1]
    ELSE IF stage = 1 /\ Len(heightC) > 1 THEN [stage |-> 2, idx |-> 2]
    ELSE IF stage = 2 /\ idx < Len(heightC) THEN [stage |-> 2, idx |-> idx + 1]
    ELSE [stage |-> 3, idx |-> 1]

RecordPrepends(codec, size) ==
    /\ calls' = Append(calls, Call(codec, "ok"))
    /\ scratch' = Some(size)
    /\ attempts' = <<Attempt(codec, size)>> \o attempts
    /\ last_fps' = IF stage = 1 THEN fpsC[idx] ELSE last_fps
    /\ last_height' = IF stage = 2 THEN heightC[idx] ELSE last_height
    /\ phase' = "preferred"
    /\ IF Accepted(size)
       THEN /\ pc' = "promote"
            /\ UNCHANGED <<stage, idx>>
       ELSE /\ stage' = NextCandidate.stage
            /\ idx' = NextCandidate.idx
            /\ UNCHANGED pc
    /\ UNCHANGED <<inTemp, inp, error>>

\* A successful try_encode: the size is measured, the Attempt is appended,
\* last_fps / last_height are updated and the size is compared to the budget.
Record(codec, size) ==
    /\ calls' = Append(calls, Call(codec, "ok"))
    /\ scratch' = Some(size)
    /\ attempts' = Append(attempts, Attempt(codec, size))
    /\ last_fps' = IF stage = 1 THEN fpsC[idx] ELSE last_fps
    /\ last_height' = IF stage = 2 THEN heightC[idx] ELSE last_height
    /\ phase' = "preferred"
    /\ IF Accepted(size)
       THEN /\ pc' = "promote"
            /\ UNCHANGED <<stage, idx>>
       ELSE /\ stage' = NextCandidate.stage
            /\ idx' = NextCandidate.idx
            /\ UNCHANGED pc
    /\ UNCHANGED <<inTemp, inp, error>>

FatalContinues(codec, failure) ==
    /\ calls' = Append(calls, Call(codec, failure))
    /\ stage' = NextCandidate.stage
    /\ idx' = NextCandidate.idx
    /\ phase' = "preferred"
    /\ UNCHANGED <<pc, error, inTemp, inp, scratch, attempts, last_fps, last_height>>

\* A failed try_encode that nothing catches: the ValueError leaves the call.
Fatal(codec, failure) ==
    /\ calls' = Append(calls, Call(codec, failure))
    /\ Raise(failure)
    /\ LeaveWithBlocks
    /\ UNCHANGED <<attempts, last_fps, last_height, phase, stage, idx>>

CatchesUnavailableOnly(failure) == codecs.fallback # None /\ failure = "unavailable"

\* Lines 258-260: except ValueError, re-raised when there is no fallback.
Caught(failure) == codecs.fallback # None

\* Attempts of the log that were recovered by the fallback codec.
Recovered == Cardinality({i \in 1..Len(attempts) : Some(attempts[i].video_codec) = codecs.fallback})

PreferredCodecRemembersFallback ==
    IF Recovered > 0 THEN Val(codecs.fallback) ELSE codecs.preferred

\* chosen_codec of the first try_encode (line 251): the closure reads the
\* preferred_codec of line 174, which nothing assigns again.
preferred_codec == codecs.preferred

\* Lines 247-257: the first try_encode of an attempt, with preferred_codec;
\* failures are the ways ffmpeg may fail in the runs considered.
TryPreferred(failures) ==
    /\ pc = "encode"
    /\ phase = "preferred"
    /\ \/ \E size \in Sizes : Record(preferred_codec, size)
       \/ \E failure \in failures :
             IF Caught(failure)
             THEN /\ calls' = Append(calls, Call(preferred_codec, failure))
                  /\ phase' = "fallback"
                  /\ UNCHANGED <<pc, error, inTemp, inp, scratch, attempts,
                                 last_fps, last_height, stage, idx>>
             ELSE Fatal(preferred_codec, failure)
    /\ video_bps' = IF stage = 3 THEN Some(StageThreeBps) ELSE video_bps
    /\ UNCHANGED <<args, exit_code, target_bytes, codecs, probeCalls, p, fpsC, heightC,
                   outTemp, dest, uploads, result, outp>>

\* Lines 261-270: the retry with fallback_codec; its failure is not caught.
\* limit is the number of attempts of one run that may recover this way.
TryFallback(failures, limit) ==
    /\ pc = "encode"
    /\ phase = "fallback"
    /\ \/ /\ Recovered < limit
          /\ \E size \in Sizes : Record(Val(codecs.fallback), size)
       \/ \E failure \in failures : Fatal(Val(codecs.fallback), failure)
    /\ UNCHANGED <<args, exit_code, target_bytes, codecs, probeCalls, p, fpsC, heightC,
                   outTemp, dest, uploads, result, video_bps, outp>>

EncodePreferred == TryPreferred(Failures)

EncodeFallback == TryFallback(Failures, MaxRecovered)

\* ------------------------------------------------------------- the result

StrategyAlwaysFps(s) == "fps"

\* Lines 305, 342, 399.
Strategy(s) ==
    CASE s = 1 -> "fps"
      [] s = 2 -> "fps+scale"
      [] OTHER -> "fps+scale+bitrate"

SuccessAlways(s, size) == TRUE

SuccessStrict(s, size) == IF s = 3 THEN size < Val(target_bytes) ELSE TRUE

\* Lines 306, 343, 400.
Success(s, size) == IF s = 3 THEN size <= Val(target_bytes) ELSE TRUE

\* The dict returned at lines 298-308, 335-345, 392-402; size is the local
\* variable size, the measured size of the last attempt.
Result(output, size) ==
    [output |-> output, target_bytes |-> Val(target_bytes),
     actual_bytes |-> size, strategy |-> Strategy(stage),
     success |-> Success(stage, size), attempts |-> attempts]

\* Lines 296-297, 333-334, 389-390 and the return: PreparedOutput gives the
\* destination itself (local) or a file in a fresh temp dir (s3://); the
\* scratch file is moved there with os.replace; __exit__ uploads the file to
\* an s3:// destination and then removes the temp file and dir.  A failed
\* upload raises out of __exit__ before that cleanup.
Promote ==
    /\ pc = "promote"
    /\ \E output \in OutputArgs :
          IF output = "local"
          THEN /\ dest' = scratch
               /\ outp' = [outp EXCEPT !.local_path = Some("output")]
               /\ result' = Some(Result(output, Val(scratch)))
               /\ pc' = "returned"
               /\ UNCHANGED <<outTemp, uploads, error>>
          ELSE \E uploaded \in BOOLEAN :
                  IF uploaded
                  THEN /\ dest' = scratch
                       /\ uploads' = uploads + 1
                       /\ outp' = [outp EXCEPT !.local_path = Some("temp"),
                                               !._local_path = Some("temp"),
                                               !.upload_calls = @ + 1]
                       /\ result' = Some(Result(output, Val(scratch)))
                       /\ pc' = "returned"
                       /\ UNCHANGED <<outTemp, error>>
                  ELSE /\ outTemp' = TRUE
                       /\ outp' = [outp EXCEPT !.local_path = Some("temp"),
                                               !._local_path = Some("temp"),
                                               !.file = TRUE,
                                               !.upload_calls = @ + 1]
                       /\ Raise("upload")
                       /\ UNCHANGED <<dest, uploads, result>>
    /\ LeaveWithBlocks
    /\ UNCHANGED <<args, exit_code, target_bytes, codecs, probeCalls, p, fpsC, heightC,
                   stage, idx, phase, last_fps, last_height, attempts, calls,
                   video_bps>>

Next ==
    \/ ValidateArgs
    \/ VerifyTools
    \/ PickCodec
    \/ EnterInput
    \/ ProbeInput
    \/ EncodePreferred
    \/ EncodeFallback
    \/ Promote

Spec == Init /\ [][Next]_vars

\* ------------------------------------------------------------ properties

\* The successful encode invocation that produced attempt i of the log.
OkCall(i) == CHOOSE k \in 1..Len(calls) : calls[k].attempt = i /\ calls[k].outcome = "ok"

\* The stage in which attempt i of the log was made.
AttemptStage(i) == calls[OkCall(i)].stage

Budget == Val(target_bytes)

\* The call returned, and the destination holds the file of the last attempt.
ReturnedWith(strategy, success) ==
    /\ result # None
    /\ Val(result).strategy = strategy
    /\ Val(result).success = success
    /\ Val(result).attempts = attempts
    /\ Val(result).actual_bytes = attempts[Len(attempts)].output_bytes
    /\ dest = Some(attempts[Len(attempts)].output_bytes)

\* After an accepted attempt the call promotes it and returns; the only way
\* not to return is a failed upload to an s3:// destination, which raises.
PromotedAs(strategy, success) ==
    /\ pc \in {"promote", "returned", "raised"}
    /\ pc = "raised" => error = Some("upload")
    /\ pc = "returned" => ReturnedWith(strategy, success)

\* C1: stage 1 attempts the frame-rate candidates in list order, each with
\* height keep and CRF rate control; the first attempt whose size is within
\* the budget is the last encode of the call, its file is promoted to the
\* destination and the result is strategy "fps" with success = TRUE.
C1_Stage1StopsAtFirstFit ==
    \A i \in 1..Len(attempts) : AttemptStage(i) = 1 =>
        /\ i <= Len(fpsC)
        /\ \A j \in 1..i : AttemptStage(j) = 1
        /\ attempts[i].fps = fpsC[i] /\ calls[OkCall(i)].fps = fpsC[i]
        /\ attempts[i].height = None /\ calls[OkCall(i)].height = None
        /\ attempts[i].crf = Some(args.crf) /\ calls[OkCall(i)].crf = Some(args.crf)
        /\ attempts[i].video_bitrate = None /\ calls[OkCall(i)].video_bitrate = None
        /\ attempts[i].output_bytes <= Budget =>
              /\ i = Len(attempts)
              /\ OkCall(i) = Len(calls)
              /\ PromotedAs("fps", TRUE)

\* Witness of C1: a call returned "fps" after the third frame-rate candidate.
C1_Witness ==
    /\ pc = "returned"
    /\ Val(result).strategy = "fps"
    /\ Len(attempts) = 3
    /\ attempts[3].fps = Some(15)

\* C2: stage 2 is entered only after every stage-1 candidate was attempted
\* and exceeded the budget; it attempts the height candidates after the
\* leading keep in list order, each with the frame rate of the last stage-1
\* attempt and CRF rate control; the first fit is the last encode of the call
\* and returns strategy "fps+scale" with success = TRUE.
C2_Stage2AfterStage1 ==
    /\ stage = 2 =>
          /\ Len(attempts) >= Len(fpsC)
          /\ \A j \in 1..Len(fpsC) :
                AttemptStage(j) = 1 /\ attempts[j].output_bytes > Budget
          /\ last_fps = attempts[Len(fpsC)].fps
    /\ \A k \in 1..Len(calls) : calls[k].stage = 2 =>
          /\ calls[k].attempt > Len(fpsC)
          /\ \A j \in 1..Len(fpsC) :
                AttemptStage(j) = 1 /\ attempts[j].output_bytes > Budget
          /\ calls[k].fps = attempts[Len(fpsC)].fps
          /\ calls[k].fps = fpsC[Len(fpsC)]
          /\ calls[k].attempt - Len(fpsC) + 1 \in 2..Len(heightC)
          /\ calls[k].height = heightC[calls[k].attempt - Len(fpsC) + 1]
          /\ calls[k].height # None
          /\ calls[k].crf = Some(args.crf)
          /\ calls[k].video_bitrate = None
    /\ \A i \in 1..Len(attempts) : AttemptStage(i) = 2 =>
          /\ attempts[i].fps = calls[OkCall(i)].fps
          /\ attempts[i].height = calls[OkCall(i)].height
          /\ attempts[i].crf = Some(args.crf)
          /\ attempts[i].video_bitrate = None
          /\ attempts[i].output_bytes <= Budget =>
                /\ i = Len(attempts)
                /\ OkCall(i) = Len(calls)
                /\ PromotedAs("fps+scale", TRUE)

\* Witness of C2: a call returned "fps+scale" at the second height candidate
\* tried, after more than one frame rate.
C2_Witness ==
    /\ pc = "returned"
    /\ Val(result).strategy = "fps+scale"
    /\ Len(fpsC) > 1
    /\ Len(attempts) = Len(fpsC) + 2

\* Attempts of stages 1 and 2 when every candidate is tried.
Ladder12 == Len(fpsC) + Len(heightC) - 1

AllExceeded ==
    /\ Len(attempts) >= Ladder12
    /\ \A j \in 1..Ladder12 : AttemptStage(j) \in {1, 2} /\ attempts[j].output_bytes > Budget

\* C3: stage 3 runs exactly when every stage-1 and stage-2 candidate was
\* attempted and exceeded the budget; it makes one bitrate-targeted attempt,
\* which is appended to the log and promoted whatever its size; the result is
\* strategy "fps+scale+bitrate" with success = (size <= target_bytes).
C3_Stage3Fallback ==
    /\ stage = 3 => AllExceeded
    /\ (pc = "encode" /\ fpsC # << >> /\ AllExceeded) => stage = 3
    /\ \A k \in 1..Len(calls) : calls[k].stage = 3 =>
          /\ AllExceeded
          /\ calls[k].attempt = Ladder12 + 1
          /\ calls[k].video_bitrate # None /\ calls[k].crf = None
    /\ \A i \in 1..Len(attempts) : attempts[i].video_bitrate # None =>
          /\ AttemptStage(i) = 3
          /\ i = Ladder12 + 1
          /\ i = Len(attempts)
          /\ OkCall(i) = Len(calls)
          /\ attempts[i].crf = None
          /\ PromotedAs("fps+scale+bitrate", attempts[i].output_bytes <= Budget)
    /\ \A i \in 1..Len(attempts) : AttemptStage(i) = 3 => attempts[i].video_bitrate # None

\* Witness of C3: the bitrate attempt missed the budget and was still
\* promoted and returned, after stage 2 had candidates.
C3_Witness ==
    /\ pc = "returned"
    /\ Val(result).strategy = "fps+scale+bitrate"
    /\ Val(result).success = FALSE
    /\ dest = Some(601)
    /\ Len(heightC) > 1

Position(seq, e) == CHOOSE k \in 1..Len(seq) : seq[k] = e

\* C4 as claimed: when a stage-1 or stage-2 candidate fits, the strategy is
\* the stage of the fit and the length of the returned log is the fitting
\* candidate's position in its own stage's list (for stage 2: counting the
\* leading keep, or not counting it).
C4_LogLengthIsPositionInStage ==
    (pc = "returned" /\ stage \in {1, 2}) =>
        /\ Val(result).strategy = IF stage = 1 THEN "fps" ELSE "fps+scale"
        /\ stage = 1 => Len(Val(result).attempts) = idx
        /\ stage = 2 => Len(Val(result).attempts) \in {idx, idx - 1}

\* C4 amended: the first attempt of stage 1 or 2 that fits is the last
\* encode of the call, the strategy is the stage of that attempt, and the
\* length of the returned log is the number of candidates attempted so far:
\* the candidate's position in the frame-rate list for a stage-1 fit, and the
\* length of the frame-rate list plus the candidate's position among the
\* height candidates after the leading keep for a stage-2 fit.
C4_LogLengthCountsBothStages ==
    \A i \in 1..Len(attempts) :
        (AttemptStage(i) \in {1, 2} /\ attempts[i].output_bytes <= Budget) =>
            /\ \A j \in 1..(i - 1) : attempts[j].output_bytes > Budget
            /\ i = Len(attempts)
            /\ OkCall(i) = Len(calls)
            /\ AttemptStage(i) = 1 => i = Position(fpsC, attempts[i].fps)
            /\ AttemptStage(i) = 2 =>
                  i = Len(fpsC) + (Position(heightC, attempts[i].height) - 1)
            /\ pc = "returned" =>
                  /\ Val(result).strategy = IF AttemptStage(i) = 1 THEN "fps" ELSE "fps+scale"
                  /\ Val(result).success
                  /\ Len(Val(result).attempts) = i

\* Witness of C4: a fit at the second height candidate after five frame
\* rates: a log of seven entries.
C4_Witness ==
    /\ pc = "returned"
    /\ Val(result).strategy = "fps+scale"
    /\ Len(fpsC) = 5
    /\ Len(Val(result).attempts) = 7

\* C5 as claimed: an encode that fails for another reason than an
\* unavailable encoder (here: a timeout) aborts the call: no encode is
\* invoked after it, not even the fallback codec's retry, and the call does
\* not return a result.
C5_TimeoutAbortsSearch ==
    \A k \in 1..Len(calls) : calls[k].outcome = "timeout" =>
        /\ k = Len(calls)
        /\ pc # "returned"

\* Encode invocations made for attempt a with codec c.
CallsOf(a, c) == {k \in 1..Len(calls) : calls[k].attempt = a /\ calls[k].chosen_vcodec = c}

\* C6: with codec preference auto, a failed encode with the preferred codec
\* is followed by exactly one retry with the fallback codec and the same fps,
\* height, CRF, bitrate and audio bitrate; when the retry succeeds the attempt
\* records the fallback codec, and the attempt made one encode call with each
\* codec.
C6_FallbackRetriesOnce ==
    \A k \in 1..Len(calls) :
        (/\ codecs.fallback # None
         /\ calls[k].chosen_vcodec = codecs.preferred
         /\ calls[k].outcome # "ok") =>
            /\ codecs.preferred = "libx265" /\ codecs.fallback = Some("libx264")
            /\ k = Len(calls) => pc = "encode" /\ phase = "fallback"
            /\ k < Len(calls) =>
                  /\ calls[k + 1] = [calls[k] EXCEPT !.chosen_vcodec = "libx264",
                                                     !.outcome = calls[k + 1].outcome]
                  /\ Cardinality(CallsOf(calls[k].attempt, "libx265")) = 1
                  /\ Cardinality(CallsOf(calls[k].attempt, "libx264")) = 1
                  /\ calls[k + 1].outcome = "ok" =>
                        /\ Len(attempts) >= calls[k].attempt
                        /\ attempts[calls[k].attempt].video_codec = "libx264"
                        /\ attempts[calls[k].attempt].fps = calls[k].fps
                        /\ attempts[calls[k].attempt].crf = calls[k].crf
                        /\ attempts[calls[k].attempt].video_bitrate = calls[k].video_bitrate

\* Witness of C6: the very first attempt failed on libx265 and was recorded
\* with libx264.
C6_Witness ==
    /\ Len(calls) >= 2
    /\ calls[1].chosen_vcodec = "libx265" /\ calls[1].outcome = "unavailable"
    /\ calls[2].chosen_vcodec = "libx264" /\ calls[2].outcome = "ok"
    /\ Len(attempts) >= 1
    /\ attempts[1].video_codec = "libx264"

\* Call k failed and nothing caught the failure: the codec was explicit, or
\* it was the fallback codec's retry.
FatalCall(k) ==
    /\ calls[k].outcome # "ok"
    /\ \/ codecs.fallback = None
       \/ k > 1 /\ calls[k - 1].attempt = calls[k].attempt

\* C7: when an attempt fails fatally the call raises and returns nothing, no
\* Attempt is recorded for the failed invocation, no encode follows it, and
\* the destination has been neither written nor uploaded.
C7_FatalFailureLeavesNoTrace ==
    \A k \in 1..Len(calls) : FatalCall(k) =>
        /\ k = Len(calls)
        /\ pc = "raised"
        /\ error = Some(calls[k].outcome)
        /\ result = None
        /\ Len(attempts) = calls[k].attempt - 1
        /\ dest = None
        /\ uploads = 0
        /\ outTemp = FALSE

\* Witness of C7: in auto mode both codecs failed in the third attempt.
C7_Witness ==
    /\ pc = "raised"
    /\ codecs.fallback # None
    /\ Len(calls) >= 2
    /\ calls[Len(calls)].attempt = 3
    /\ calls[Len(calls)].outcome # "ok"
    /\ calls[Len(calls) - 1].outcome # "ok"
    /\ Len(attempts) = 2

\* C8: target_bytes and target_mb both supplied or both absent raise the
\* configuration error before any probe and any encode call.
C8_ExactlyOneTarget ==
    (pc # "call" /\ (args.target_bytes = None) = (args.target_mb = None)) =>
        /\ pc = "raised"
        /\ error = Some("exactly_one")
        /\ probeCalls = 0
        /\ calls = << >>
        /\ attempts = << >>
        /\ dest = None

\* Witness of C8: both targets supplied, each valid alone, and the call
\* raised.
C8_Witness ==
    /\ pc = "raised"
    /\ args.target_bytes = Some(600)
    /\ args.target_mb = Some(1201)
    /\ error = Some("exactly_one")

\* The call has not got to the input: no download, no probe, no search
\* state, no encode, no output.
BeforeInput ==
    /\ pc \in {"call", "tools", "pick", "raised"}
    /\ inTemp = FALSE
    /\ probeCalls = 0
    /\ fpsC = << >> /\ heightC = << >>
    /\ calls = << >>
    /\ attempts = << >>
    /\ dest = None /\ uploads = 0 /\ outTemp = FALSE
    /\ result = None

NonPositiveNumber ==
    \/ args.min_fps <= 0
    \/ args.min_height <= 0
    \/ args.timeout_s <= 0
    \/ args.target_bytes # None /\ Val(args.target_bytes) <= 0
    \/ args.target_mb # None /\ Val(args.target_mb) <= 0

\* C9 as claimed: a non-positive min_fps, min_height, timeout_s or target
\* size, or a video_codec that is not one of auto, libx265, libx264, raises
\* before the input is probed and before any encode: nothing is probed, no
\* search state exists, nothing is encoded or written, nothing is returned.
C9_BadArgsRaiseEarly ==
    (NonPositiveNumber \/ args.video_codec \notin {"auto", "libx265", "libx264"}) =>
        /\ pc # "returned"
        /\ probeCalls = 0
        /\ fpsC = << >> /\ heightC = << >>
        /\ calls = << >>
        /\ attempts = << >>
        /\ dest = None /\ uploads = 0

\* C9 amended: the codec is compared after stripping blanks and lower-casing
\* it, an empty value standing for auto.
C9_BadArgsRaiseEarlyNormalized ==
    (NonPositiveNumber \/ Normalize(args.video_codec) \notin {"auto", "libx265", "libx264"}) =>
        BeforeInput

\* Witness of C9: every number is positive, the codec is unknown, and the
\* call raised for the codec.
C9_Witness ==
    /\ pc = "raised"
    /\ error = Some("video_codec")
    /\ args.video_codec = "vp9"
    /\ ~NonPositiveNumber

\* C10: when the probe reports no video stream, or a duration that is missing
\* or not positive, the call raises before the search: no encode invocation,
\* an empty attempt log, no output.
C10_BadProbeRaisesBeforeSearch ==
    (/\ probeCalls > 0
     /\ \/ ~p.has_video
        \/ p.duration_s = None
        \/ Val(p.duration_s) <= 0) =>
        /\ pc = "raised"
        /\ calls = << >>
        /\ attempts = << >>
        /\ stage = 0
        /\ dest = None /\ uploads = 0 /\ outTemp = FALSE
        /\ result = None

\* Witness of C10: a video stream with duration 0 was probed and the call
\* raised.
C10_Witness ==
    /\ pc = "raised"
    /\ probeCalls = 1
    /\ p.has_video
    /\ p.duration_s = Some(0)
    /\ error = Some("duration")

\* ------------------------------------------------------------ floors

\* C11: min_fps is a floor: no encode invocation and no logged attempt, in
\* any stage, asks for an explicit frame rate below min_fps.
C11_MinFpsIsFloor ==
    /\ \A k \in 1..Len(calls) :
          calls[k].fps # None => Val(calls[k].fps) >= args.min_fps
    /\ \A i \in 1..Len(attempts) :
          attempts[i].fps # None => Val(attempts[i].fps) >= args.min_fps

\* The height of the input, once probed.
KnownHeight(h) == p.video_height # None /\ h < Val(p.video_height)

\* C12: min_height is a floor and the search only scales down: every encode
\* invocation and every logged attempt with an explicit height h, the
\* bitrate attempt included, has min_height <= h < input height.
C12_MinHeightIsFloor ==
    /\ \A k \in 1..Len(calls) : calls[k].height # None =>
          /\ Val(calls[k].height) >= args.min_height
          /\ KnownHeight(Val(calls[k].height))
    /\ \A i \in 1..Len(attempts) : attempts[i].height # None =>
          /\ Val(attempts[i].height) >= args.min_height
          /\ KnownHeight(Val(attempts[i].height))

\* Witness of C12: the bitrate attempt ran at min_height = 800, a height
\* that is on no fixed ladder, after the ladder heights above it.
C12_Witness ==
    /\ Len(calls) > 0
    /\ calls[Len(calls)].stage = 3
    /\ calls[Len(calls)].height = Some(800)
    /\ args.min_height = 800
    /\ \E k \in 1..Len(calls) : calls[k].height = Some(1080)

\* C13: every returned result has success = (actual_bytes <= target_bytes),
\* where actual_bytes is the output_bytes of the last entry of the log, and
\* the file of that entry is the one promoted to the destination.
C13_SuccessReflectsSize ==
    pc = "returned" =>
        LET r == Val(result) IN
        /\ r.attempts = attempts
        /\ Len(attempts) > 0
        /\ r.target_bytes = Budget
        /\ r.actual_bytes = attempts[Len(attempts)].output_bytes
        /\ r.success = (r.actual_bytes <= r.target_bytes)
        /\ dest = Some(attempts[Len(attempts)].output_bytes)
        /\ OkCall(Len(attempts)) = Len(calls)

\* Witness of C13: the bitrate attempt landed exactly on the budget and the
\* call returned success.
C13_Witness ==
    /\ pc = "returned"
    /\ Val(result).strategy = "fps+scale+bitrate"
    /\ Val(result).actual_bytes = Val(result).target_bytes
    /\ Val(result).success

\* --------------------------------------------------------- the attempt log

\* C14 as claimed: at every point of a run the log has exactly one entry per
\* encode invocation performed so far, in the order performed: each
\* candidate triggers exactly one encode call.
C14_OneEntryPerInvocation ==
    /\ Len(attempts) = Len(calls)
    /\ \A k \in 1..Len(calls) : calls[k].attempt = k

IsOk(c) == c.outcome = "ok"

\* The encode invocations that succeeded, in the order performed.
OkCalls == SelectSeq(calls, IsOk)

\* Encode invocations made for attempt a.
CallsFor(a) == {k \in 1..Len(calls) : calls[k].attempt = a}

LogMatchesOkCalls ==
    /\ Len(attempts) = Len(OkCalls)
    /\ \A i \in 1..Len(attempts) :
          /\ OkCalls[i].attempt = i
          /\ attempts[i].video_codec = OkCalls[i].chosen_vcodec
          /\ attempts[i].fps = OkCalls[i].fps
          /\ attempts[i].crf = OkCalls[i].crf
          /\ attempts[i].video_bitrate = OkCalls[i].video_bitrate
          /\ attempts[i].audio_bitrate = OkCalls[i].audio_bitrate
    /\ \A k \in 1..Len(calls) :
          /\ k < Len(calls) => calls[k].attempt <= calls[k + 1].attempt
          /\ Cardinality(CallsFor(calls[k].attempt)) <= 2
          /\ codecs.fallback = None => Cardinality(CallsFor(calls[k].attempt)) = 1

LogAppendOnly ==
    \/ attempts' = attempts
    \/ /\ Len(attempts') = Len(attempts) + 1
       /\ SubSeq(attempts', 1, Len(attempts)) = attempts

\* C14 amended: at every point of a run the log has exactly one entry per
\* encode invocation that succeeded so far, in the order performed; a
\* candidate triggers one encode call, and with codec preference auto one
\* more after a failed one; a failed invocation leaves no entry; entries are
\* only appended, never removed, reordered or changed.
C14_OneEntryPerSuccessfulInvocation ==
    []LogMatchesOkCalls /\ [][LogAppendOnly]_vars

\* Witness of C14: a call returned with three entries after four encode
\* invocations, the second of which failed.
C14_Witness ==
    /\ pc = "returned"
    /\ Len(attempts) = 3
    /\ Len(calls) = 4
    /\ calls[2].outcome # "ok"

\* C16: within a stage no attempt is less aggressive than the one before it:
\* the explicit frame rates of successive stage-1 attempts are strictly
\* decreasing and the heights of successive stage-2 attempts are strictly
\* decreasing.
C16_StrictlyMoreAggressive ==
    \A i \in 1..(Len(attempts) - 1) :
        /\ (/\ AttemptStage(i) = 1 /\ AttemptStage(i + 1) = 1
            /\ attempts[i].fps # None) =>
               /\ attempts[i + 1].fps # None
               /\ Val(attempts[i + 1].fps) < Val(attempts[i].fps)
        /\ (AttemptStage(i) = 2 /\ AttemptStage(i + 1) = 2) =>
               /\ attempts[i].height # None /\ attempts[i + 1].height # None
               /\ Val(attempts[i + 1].height) < Val(attempts[i].height)

\* -------------------------------------------------------- candidate lists

\* Some(x) is an element of the candidate list seq.
Listed(seq, x) == \E i \in 1..Len(seq) : seq[i] = Some(x)

NoDuplicates(seq) == \A i, j \in 1..Len(seq) : i # j => seq[i] # seq[j]

\* Where x first occurs in the ladder.
FirstIn(ladder, x) ==
    CHOOSE k \in 1..Len(ladder) :
        ladder[k] = x /\ \A j \in 1..(k - 1) : ladder[j] # x

\* The explicit candidates of seq follow the order of the ladder.
InLadderOrder(seq, ladder) ==
    \A i, j \in 2..Len(seq) :
        i < j => FirstIn(ladder, Val(seq[i])) < FirstIn(ladder, Val(seq[j]))

\* C18: the resolution candidate list is keep first, followed by each of
\* 2160, 1440, 1080, 720, min_height, in that order, that is strictly below
\* the input height H, at least min_height and not already in the list; it
\* has no duplicates and contains min_height whenever min_height < H; when H
\* is unknown the list is only keep, stage 2 makes no attempt and the search
\* goes from the last stage-1 attempt directly to stage 3.
C18_HeightCandidates ==
    heightC # << >> =>
        LET H == p.video_height
            ladder == <<2160, 1440, 1080, 720, args.min_height>>
            eligible(h) == H # None /\ h < Val(H) /\ h >= args.min_height
        IN
        /\ heightC[1] = None
        /\ \A i \in 2..Len(heightC) :
              /\ heightC[i] # None
              /\ Contains(ladder, Val(heightC[i]))
              /\ eligible(Val(heightC[i]))
        /\ \A n \in 1..Len(ladder) : eligible(ladder[n]) => Listed(heightC, ladder[n])
        /\ NoDuplicates(heightC)
        /\ InLadderOrder(heightC, ladder)
        /\ (H # None /\ args.min_height < Val(H)) => Listed(heightC, args.min_height)
        /\ H = None =>
              /\ heightC = <<None>>
              /\ stage # 2
              /\ \A k \in 1..Len(calls) :
                    /\ calls[k].stage # 2
                    /\ calls[k].stage = 3 =>
                          /\ calls[k].attempt = Len(fpsC) + 1
                          /\ \A j \in 1..Len(fpsC) : AttemptStage(j) = 1

\* Witness of C18: the height of the input is unknown and the bitrate attempt
\* was made right after the second, and last, stage-1 attempt.
C18_Witness ==
    /\ probeCalls = 1
    /\ p.video_height = None
    /\ Len(fpsC) = 2
    /\ Len(attempts) = 3
    /\ attempts[3].video_bitrate # None

\* ------------------------------------- the candidate lists as a function
\* Lines 186-204 alone, over more inputs than the search can afford: the
\* floors and the probed frame rate and height around every ladder value.

CandidateMinFps == {1, 8, 12, 13, 15, 20, 24, 25, 30, 31}

CandidateMinHeights == {1, 480, 720, 721, 1080, 2160, 2161}

CandidateArgs ==
    [target_bytes : {Some(600)}, target_mb : {None},
     video_codec : {"auto"}, crf : {28}, audio_bitrate : {<<"1", "2", "8", "k">>},
     min_fps : CandidateMinFps, min_height : CandidateMinHeights,
     timeout_s : {30}, input_path : {"local"}]

CandidateProbes ==
    [has_video : {TRUE}, duration_s : {Some(1000)},
     video_fps : {None, Some(0), Some(8), Some(12), Some(13), Some(24),
                  Some(25), Some(30), Some(60)},
     video_height : {None, Some(480), Some(720), Some(721), Some(1080),
                     Some(2160), Some(4320)}]

\* The call is about to probe a local input: lines 154-179 have run.
CandidatesInit ==
    /\ args \in CandidateArgs
    /\ pc = "probe"
    /\ target_bytes = ConvertedTarget(args)
    /\ codecs = _pick_codec(args.video_codec)
    /\ inTemp = FALSE
    /\ inp = LocalInput
    /\ outTemp = FALSE
    /\ outp = NoOutput
    /\ dest = None
    /\ uploads = 0
    /\ Unprobed
    /\ Unsearched
    /\ Running

\* Lines 186-204 after a probe that passed the checks of lines 181-184.
BuildCandidates ==
    /\ pc = "probe"
    /\ \E pr \in CandidateProbes :
          /\ ProbeError(pr) = None
          /\ p' = pr
          /\ fpsC' = fps_candidates(input_fps(pr), args.min_fps)
          /\ heightC' = height_candidates(input_h(pr), args.min_height)
    /\ pc' = "candidates"
    /\ UNCHANGED <<args, exit_code, target_bytes, codecs, inTemp, probeCalls, stage, idx,
                   phase, last_fps, last_height, attempts, calls, scratch,
                   outTemp, dest, uploads, result, error, video_bps, inp, outp>>

SpecCandidates == CandidatesInit /\ [][BuildCandidates]_vars

\* C17: the frame-rate candidate list is keep first, followed by each of 24,
\* 15, 12, min_fps, in that order, that is strictly below the input frame
\* rate F (30 when the probe gives no frame rate, or gives 0) and not already
\* in the list; it has no duplicates and contains min_fps whenever
\* min_fps < F.
C17_FpsCandidates ==
    fpsC # << >> =>
        LET F == IF p.video_fps \in {None, Some(0)} THEN 30 ELSE Val(p.video_fps)
            ladder == <<24, 15, 12, args.min_fps>>
        IN
        /\ fpsC[1] = None
        /\ \A i \in 2..Len(fpsC) :
              /\ fpsC[i] # None
              /\ Contains(ladder, Val(fpsC[i]))
              /\ Val(fpsC[i]) < F
        /\ \A n \in 1..Len(ladder) : ladder[n] < F => Listed(fpsC, ladder[n])
        /\ NoDuplicates(fpsC)
        /\ InLadderOrder(fpsC, ladder)
        /\ args.min_fps < F => Listed(fpsC, args.min_fps)

\* Witness of C17: min_fps = 13 lies between two ladder values and below an
\* input of 25 fps: the list is keep, 24, 15, 12, 13.
C17_Witness ==
    /\ pc = "candidates"
    /\ p.video_fps = Some(25)
    /\ args.min_fps = 13
    /\ fpsC = <<None, Some(24), Some(15), Some(12), Some(13)>>

\* -------------------------------------------- the video bitrate of stage 3
\* Lines 349-366 over budgets, durations and audio bitrate strings the
\* search above does not range over.  The call is at the start of stage 3:
\* an input of 8 fps and unknown height, min_fps = 8, has the single
\* candidate keep, and its encode was one byte over the budget.

BitrateBudgets == {1, 600, 250000}

\* Hundredths of a second: below, at and above the 0.1 s of line 350.
BitrateDurations == {1, 5, 10, 11, 300, 1001, 6000}

AudioBitrates ==
    { <<"1", "2", "8", "k">>, <<"9", "6", "K">>, <<"1", "m">>,
      <<"1", ".", "5", "k">>, <<".", "5", "M">>, <<"6", "4", "0", "0", "0">>,
      <<"-", "5", "k">>, <<"a", "b", "c">>, <<"1", "2", "8", "k", "b">>,
      <<"k">>, << >> }

BitrateArgs ==
    [target_bytes : {Some(b) : b \in BitrateBudgets}, target_mb : {None},
     video_codec : {"libx264"}, crf : {28}, audio_bitrate : AudioBitrates,
     min_fps : {8}, min_height : {480}, timeout_s : {30},
     input_path : {"local"}]

BitrateProbes ==
    [has_video : {TRUE}, duration_s : {Some(d) : d \in BitrateDurations},
     video_fps : {Some(8)}, video_height : {None}]

BitrateInit ==
    /\ args \in BitrateArgs
    /\ p \in BitrateProbes
    /\ pc = "encode"
    /\ target_bytes = ConvertedTarget(args)
    /\ codecs = _pick_codec(args.video_codec)
    /\ inTemp = FALSE
    /\ inp = LocalInput
    /\ outTemp = FALSE
    /\ outp = NoOutput
    /\ dest = None
    /\ uploads = 0
    /\ probeCalls = 1
    /\ fpsC = fps_candidates(input_fps(p), args.min_fps)
    /\ heightC = height_candidates(input_h(p), args.min_height)
    /\ stage = 3
    /\ idx = 1
    /\ phase = "preferred"
    /\ last_fps = None
    /\ last_height = None
    /\ attempts = <<[fps |-> None, height |-> None, video_codec |-> "libx264",
                     crf |-> Some(args.crf), video_bitrate |-> None,
                     audio_bitrate |-> args.audio_bitrate,
                     output_bytes |-> Val(args.target_bytes) + 1]>>
    /\ calls = <<[attempt |-> 1, stage |-> 1, chosen_vcodec |-> "libx264",
                  fps |-> None, height |-> None, crf |-> Some(args.crf),
                  video_bitrate |-> None, audio_bitrate |-> args.audio_bitrate,
                  outcome |-> "ok"]>>
    /\ scratch = Some(Val(args.target_bytes) + 1)
    /\ video_bps = None
    /\ Running

BitrateNext == EncodePreferred \/ Promote

SpecBitrate == BitrateInit /\ [][BitrateNext]_vars

\* What the audio bitrate strings above stand for, in bits per second.
AudioBps(a) ==
    CASE a = <<"1", "2", "8", "k">> -> 128000
      [] a = <<"9", "6", "K">> -> 96000
      [] a = <<"1", "m">> -> 1000000
      [] a = <<"1", ".", "5", "k">> -> 1500
      [] a = <<".", "5", "M">> -> 500000
      [] a = <<"6", "4", "0", "0", "0">> -> 64000
      [] a = <<"-", "5", "k">> -> -5000
      [] OTHER -> 128000

PreparedInputPaths == {"local", "http", "s3", "missing"}

PreparedInputModes == {"download", "url", "stream"}

\* output: empty, a local path, an s3:// URL.
PreparedOutputs == {"", "local", "s3"}

PreparedArgs ==
    [input_path : PreparedInputPaths, mode : PreparedInputModes,
     output : PreparedOutputs]

PreparedInit ==
    /\ args \in PreparedArgs
    /\ pc = "with_input"
    /\ Unvalidated
    /\ Unprepared
    /\ Unprobed
    /\ Unsearched
    /\ Running

\* The variables of the encode search, which these tools do not have.
NoSearch ==
    UNCHANGED <<args, exit_code, target_bytes, codecs, probeCalls, p, fpsC, heightC, stage,
                idx, phase, last_fps, last_height, attempts, calls, scratch,
                result, video_bps>>

\* PreparedInput.__enter__ (inputs.py, lines 73-103).  An exception leaves
\* __enter__ and the with statement without __exit__; a download that fails
\* may have created the file already.
PreparedInputEnter ==
    /\ pc = "with_input"
    /\ IF args.mode \notin {"download", "url"}
       THEN Raise("mode") /\ UNCHANGED <<inTemp, inp>>
       ELSE IF inp.input_file
       THEN /\ inp' = [inp EXCEPT !.local_in = Some("input_path")]
            /\ pc' = "with_output"
            /\ UNCHANGED <<inTemp, error>>
       ELSE IF args.mode = "url"
       THEN /\ CASE args.input_path = "s3" ->
                      \E presigned \in BOOLEAN :
                         IF presigned
                         THEN /\ inp' = [inp EXCEPT !.local_in = Some("presigned")]
                              /\ pc' = "with_output"
                              /\ UNCHANGED error
                         ELSE Raise("presign") /\ UNCHANGED inp
                   [] args.input_path = "http" ->
                      /\ inp' = [inp EXCEPT !.local_in = Some("input_path")]
                      /\ pc' = "with_output"
                      /\ UNCHANGED error
                   [] OTHER -> Raise("unsupported") /\ UNCHANGED inp
            /\ UNCHANGED inTemp
       ELSE IF args.input_path \in {"http", "s3"}
       THEN /\ inTemp' = TRUE
            /\ \E download \in {"complete", "partial", "none"} :
                  IF download = "complete"
                  THEN /\ inp' = [inp EXCEPT !.local_in = Some("temp"),
                                             !._local_path = Some("temp"),
                                             !.file = TRUE]
                       /\ pc' = "with_output"
                       /\ UNCHANGED error
                  ELSE /\ inp' = [inp EXCEPT !._local_path = Some("temp"),
                                             !.file = (download = "partial")]
                       /\ Raise("download")
       ELSE Raise("unsupported") /\ UNCHANGED <<inTemp, inp>>
    /\ UNCHANGED <<outTemp, outp, dest, uploads>>
    /\ NoSearch

\* PreparedOutput.__enter__ (outputs.py, lines 50-64).  Its ValueError goes
\* through PreparedInput.__exit__.
PreparedOutputEnter ==
    /\ pc = "with_output"
    /\ CASE args.output = "" ->
              /\ error' = Some("output")
              /\ pc' = "exit_input"
              /\ UNCHANGED <<outTemp, outp>>
         [] args.output = "s3" ->
              /\ outTemp' = TRUE
              /\ outp' = [outp EXCEPT !.local_path = Some("temp"),
                                      !._local_path = Some("temp")]
              /\ pc' = "body"
              /\ UNCHANGED error
         [] OTHER ->
              /\ outp' = [outp EXCEPT !.local_path = Some("output")]
              /\ pc' = "body"
              /\ UNCHANGED <<outTemp, error>>
    /\ UNCHANGED <<inTemp, inp, dest, uploads>>
    /\ NoSearch

\* The body of the inner with statement: it writes the file at
\* out.local_path, or raises before or after writing it.
PreparedBody ==
    /\ pc = "body"
    /\ \E written, raises \in BOOLEAN :
          /\ written \/ raises
          /\ IF written /\ outp.local_path = Some("temp")
             THEN outp' = [outp EXCEPT !.file = TRUE] /\ UNCHANGED dest
             ELSE IF written
             THEN dest' = Some(1) /\ UNCHANGED outp
             ELSE UNCHANGED <<outp, dest>>
          /\ error' = IF raises THEN Some("body") ELSE None
    /\ pc' = "exit_output"
    /\ UNCHANGED <<inTemp, inp, outTemp, uploads>>
    /\ NoSearch

UploadsWhateverTheBody == outp._local_path # None /\ args.output = "s3"

\* outputs.py, line 68: exc_type is None and self._local_path and
\* inputs.is_s3_url(self.output)
ShouldUpload == error = None /\ outp._local_path # None /\ args.output = "s3"

\* outputs.py, lines 72-82: the file at _local_path is removed, then the
\* temp dir.
OutputCleaned(o) == IF o._local_path # None THEN [o EXCEPT !.file = FALSE] ELSE o

\* PreparedOutput.__exit__ (outputs.py, lines 66-82).  A failed upload
\* raises before the cleanup.
PreparedOutputExit ==
    /\ pc = "exit_output"
    /\ IF ShouldUpload
       THEN \E uploaded \in BOOLEAN :
               IF uploaded
               THEN /\ outp' = OutputCleaned([outp EXCEPT !.upload_calls = @ + 1])
                    /\ outTemp' = FALSE
                    /\ uploads' = uploads + 1
                    /\ dest' = Some(1)
                    /\ UNCHANGED error
               ELSE /\ outp' = [outp EXCEPT !.upload_calls = @ + 1]
                    /\ error' = Some("upload")
                    /\ UNCHANGED <<outTemp, uploads, dest>>
       ELSE /\ outp' = OutputCleaned(outp)
            /\ outTemp' = FALSE
            /\ UNCHANGED <<uploads, dest, error>>
    /\ pc' = "exit_input"
    /\ UNCHANGED <<inTemp, inp>>
    /\ NoSearch

\* PreparedInput.__exit__ (inputs.py, lines 105-117); it returns None, so an
\* exception in flight goes on.
PreparedInputExit ==
    /\ pc = "exit_input"
    /\ inp' = InputCleaned(inp)
    /\ inTemp' = (inTemp /\ InputCleaned(inp).file)
    /\ pc' = IF error = None THEN "returned" ELSE "raised"
    /\ UNCHANGED <<error, outTemp, outp, dest, uploads>>
    /\ NoSearch

PreparedNext ==
    \/ PreparedInputEnter
    \/ PreparedOutputEnter
    \/ PreparedBody
    \/ PreparedOutputExit
    \/ PreparedInputExit

SpecPrepared == PreparedInit /\ [][PreparedNext]_vars

\* PreparedOutput.__exit__ has run.
OutputExited == outp.local_path # None /\ pc \in {"exit_input", "returned", "raised"}

\* C19: PreparedOutput with an s3:// destination calls the upload of the
\* locally written file exactly once when the with body exits without an
\* exception and never when the body raises; with a local destination it
\* returns the path as it is and never uploads.
C19_UploadOnCleanExitOnly ==
    /\ args.output = "s3" =>
          /\ outp.local_path \in {None, Some("temp")}
          /\ ~OutputExited => outp.upload_calls = 0 /\ uploads = 0
          /\ OutputExited =>
                /\ outp.upload_calls = IF error = Some("body") THEN 0 ELSE 1
                /\ uploads = IF error = None THEN 1 ELSE 0
                /\ error = Some("body") => dest = None
    /\ args.output = "local" =>
          /\ outp.local_path \in {None, Some("output")}
          /\ pc \in {"body", "exit_output"} => outp.local_path = Some("output")
          /\ outp.upload_calls = 0 /\ uploads = 0
          /\ outTemp = FALSE /\ outp._local_path = None

\* Witness of C19: the body wrote the file for an s3:// destination, the
\* upload ran once and the tool returned.
C19_Witness ==
    /\ pc = "returned"
    /\ args.output = "s3"
    /\ outp.upload_calls = 1
    /\ uploads = 1
    /\ dest # None

\* The body of the PreparedInput with statement is running.
InsideInput == pc \in {"with_output", "body", "exit_output", "exit_input"}

ArgparseError(a) ==
    \/ (a.target_bytes = None) = (a.target_mb = None)
    \/ a.video_codec \notin {"auto", "libx265", "libx264"}

MainInit ==
    /\ args \in Args
    /\ pc = "main"
    /\ Unvalidated
    /\ Unprepared
    /\ Unprobed
    /\ Unsearched
    /\ Running

\* What main leaves unchanged: everything but pc and exit_code.
OnlyMain ==
    UNCHANGED <<args, target_bytes, codecs, inTemp, probeCalls, p, fpsC, heightC,
                stage, idx, phase, last_fps, last_height, attempts, calls,
                scratch, outTemp, dest, uploads, result, error, video_bps, inp,
                outp>>

\* Line 451: parser.error raises SystemExit(2) before the try of line 452.
ParseArgs ==
    /\ pc = "main"
    /\ IF ArgparseError(args)
       THEN pc' = "exited" /\ exit_code' = Some(2)
       ELSE pc' = "call" /\ UNCHANGED exit_code
    /\ OnlyMain

ExitCodeIgnoresSuccess(returned) == IF returned THEN 0 ELSE 1

\* Lines 469-472: 0 if result.get("success", True) else 2; 1 after any
\* Exception.
ExitCode(returned) ==
    IF returned THEN (IF Val(result).success THEN 0 ELSE 2) ELSE 1

\* Lines 452-472 once adaptive_compress_video has returned or raised.
MainReturns ==
    /\ pc \in {"returned", "raised"}
    /\ exit_code' = Some(ExitCode(pc = "returned"))
    /\ pc' = "exited"
    /\ OnlyMain

MainNext ==
    \/ ParseArgs
    \/ ValidateArgs
    \/ VerifyTools
    \/ PickCodec
    \/ EnterInput
    \/ ProbeInput
    \/ EncodePreferred
    \/ EncodeFallback
    \/ Promote
    \/ MainReturns

SpecMain == MainInit /\ [][MainNext]_vars

\* C21: main returns 0 exactly when the search returned a result with
\* success = true, 2 when it returned a result with success = false, and 1
\* when it raised; it returns nothing before the search has ended.
C21_ExitCodes ==
    /\ pc # "exited" => exit_code = None
    /\ pc = "exited" =>
          /\ exit_code # None
          /\ (exit_code = Some(0)) = (result # None /\ Val(result).success)
          /\ (result # None /\ ~Val(result).success) => exit_code = Some(2)
          /\ error # None => exit_code = Some(1)
          /\ (result = None /\ error = None) => (ArgparseError(args) /\ calls = << >>)

\* Witness of C21: the bitrate attempt missed the budget, its file was
\* promoted all the same, and main returned 2.
C21_Witness ==
    /\ pc = "exited"
    /\ exit_code = Some(2)
    /\ result # None
    /\ ~Val(result).success
    /\ dest = Some(601)

\* ------------------------------------- the search with unlimited fallbacks
\* The whole call again, for valid arguments only and with ffmpeg failing in
\* one way only (the encoder is unavailable), so that every attempt of a run
\* may need the fallback codec.

SearchArgs ==
    {a \in Args : /\ a.target_bytes = Some(600)
                  /\ a.target_mb = None
                  /\ a.video_codec \in {"auto", "libx264"}
                  /\ a.min_fps = 8
                  /\ a.min_height = 480
                  /\ a.timeout_s = 30
                  /\ a.input_path = "local"}

SearchInit ==
    /\ args \in SearchArgs
    /\ pc = "call"
    /\ Unvalidated
    /\ Unprepared
    /\ Unprobed
    /\ Unsearched
    /\ Running

\* No attempt count limits the fallback: a run has at most
\* Len(fpsC) + Len(heightC) attempts.
SearchPreferred == TryPreferred({"unavailable"})

SearchFallback == TryFallback({"unavailable"}, Len(fpsC) + Len(heightC))

SearchNext ==
    \/ ValidateArgs
    \/ VerifyTools
    \/ PickCodec
    \/ EnterInput
    \/ ProbeInput
    \/ SearchPreferred
    \/ SearchFallback
    \/ Promote

SpecSearch == SearchInit /\ [][SearchNext]_vars

\* The call is one sequential thread: whatever step is next is taken, and
\* each ffmpeg run is bounded by timeout_s (line 40).
SpecSearchFair == SpecSearch /\ WF_vars(SearchNext)

\* Attempts of the log made in stage s.
StageAttempts(s) == {i \in 1..Len(attempts) : AttemptStage(i) = s}

Terminated == pc \in {"returned", "raised"}

\* C22 as stated: one run of the search makes at most 9 encode invocations.
C22_AtMostNineInvocations == Len(calls) <= 9

\* C22, amended: one run of the search makes at most 22 encode invocations,
\* at most two for each candidate of the two lists (the leading keep of the
\* height list stands for the bitrate attempt), and at most 11 when an
\* explicit codec leaves no fallback.
C22_AtMostTwentyTwoInvocations ==
    /\ Len(calls) <= 22
    /\ Len(calls) <= 2 * (Len(fpsC) + Len(heightC))
    /\ codecs.fallback = None => Len(calls) <= 11

\* Witness of C22: a run that made 22 encode invocations has returned.
C22_Witness ==
    /\ result # None
    /\ Len(calls) = 22
    /\ Len(attempts) = 11

\* The attempts of the log made in stage s, in order.
StageLog(s) == SelectSeq([i \in 1..Len(attempts) |-> [n |-> i, a |-> attempts[i]]],
                         LAMBDA e : AttemptStage(e.n) = s)

\* The value a stage left behind: that of its last logged attempt, unset
\* when the stage logged none.
LeftBy(s, field(_)) ==
    IF StageLog(s) = << >> THEN None ELSE field(StageLog(s)[Len(StageLog(s))].a)

FpsOf(a) == a.fps

HeightOf(a) == a.height

Parameters(r, codec) ==
    [fps |-> r.fps, height |-> r.height, video_codec |-> codec, crf |-> r.crf,
     video_bitrate |-> r.video_bitrate, audio_bitrate |-> r.audio_bitrate]

\* C24: every entry of the attempt log carries exactly the parameters that
\* were passed to the encoder in the invocation that produced it: fps,
\* height, codec, CRF or bitrate, audio bitrate; in particular the height
\* recorded for the stage-3 attempt is the height passed to that encode.
C24_LogCarriesPassedParameters ==
    \A i \in 1..Len(attempts) :
        /\ \E k \in 1..Len(calls) : calls[k].attempt = i /\ calls[k].outcome = "ok"
        /\ Parameters(attempts[i], attempts[i].video_codec)
              = Parameters(calls[OkCall(i)], calls[OkCall(i)].chosen_vcodec)

\* Witness of C24: the log of a returned call ends with a stage-3 entry whose
\* explicit frame rate and height are those of the last encode invocation,
\* made with the fallback codec.
C24_Witness ==
    /\ result # None
    /\ Len(attempts) > 1
    /\ calls[Len(calls)].stage = 3
    /\ attempts[Len(attempts)].height # None
    /\ attempts[Len(attempts)].height = calls[Len(calls)].height
    /\ attempts[Len(attempts)].fps # None
    /\ Some(attempts[Len(attempts)].video_codec) = codecs.fallback

\* The explicit values of a parameter in the encode invocations of stage s.
Tried(s, field(_)) ==
    {Val(field(calls[k])) : k \in {j \in 1..Len(calls) : calls[j].stage = s /\ field(calls[j]) # None}}

\* The lowest of a set of values tried, keep when none was explicit.
Lowest(S) == IF S = {} THEN None ELSE Some(CHOOSE x \in S : \A y \in S : x <= y)

\* C25: every encode invocation of stage 2 or stage 3 uses the lowest frame
\* rate attempted in stage 1, and every invocation of stage 3 uses the lowest
\* height attempted in stage 2.
C25_LaterStagesUseLowest ==
    \A k \in 1..Len(calls) :
        /\ calls[k].stage \in {2, 3} => calls[k].fps = Lowest(Tried(1, FpsOf))
        /\ calls[k].stage = 3 => calls[k].height = Lowest(Tried(2, HeightOf))

\* The rate control _encode_once applies (lines 85-92): -b:v with maxrate and
\* bufsize when video_bitrate is given, otherwise -crf.
RateControl(r) == IF r.video_bitrate # None THEN "bitrate" ELSE "crf"

\* C26: rate control is mutually exclusive in every attempt: each entry of
\* stages 1-2 has a CRF and no video bitrate, the stage-3 entry has a video
\* bitrate and no CRF, and at most one entry of a log, its last, is
\* bitrate-controlled; the encode invocations are given the same.
C26_RateControlExclusive ==
    /\ \A i \in 1..Len(attempts) :
          /\ (attempts[i].crf = None) # (attempts[i].video_bitrate = None)
          /\ AttemptStage(i) \in {1, 2} =>
                attempts[i].crf = Some(args.crf) /\ RateControl(attempts[i]) = "crf"
          /\ AttemptStage(i) = 3 =>
                attempts[i].crf = None /\ RateControl(attempts[i]) = "bitrate"
          /\ RateControl(attempts[i]) = "bitrate" => i = Len(attempts)
    /\ \A k \in 1..Len(calls) :
          /\ (calls[k].crf = None) # (calls[k].video_bitrate = None)
          /\ (RateControl(calls[k]) = "bitrate") = (calls[k].stage = 3)

\* Witness of C26: a returned log with CRF entries of stage 1 and stage 2 and
\* a last, bitrate-controlled entry.
C26_Witness ==
    /\ result # None
    /\ Len(attempts) >= 3
    /\ AttemptStage(1) = 1
    /\ AttemptStage(Len(attempts) - 1) = 2
    /\ attempts[Len(attempts) - 1].crf = Some(28)
    /\ attempts[Len(attempts)].video_bitrate # None
    /\ attempts[Len(attempts)].crf = None

\* C27: the search never raises the frame rate: every encode invocation and
\* every log entry with an explicit frame rate, the stage-3 one included, has
\* one strictly below the input frame rate, also when the input frame rate
\* is at or below min_fps.
C27_NeverRaisesFps ==
    /\ \A k \in 1..Len(calls) :
          calls[k].fps # None => Val(calls[k].fps) < input_fps(p)
    /\ \A i \in 1..Len(attempts) :
          attempts[i].fps # None => Val(attempts[i].fps) < input_fps(p)

\* The encode invocations made for attempt a, in the order performed.
CallSeq(a) == SelectSeq(calls, LAMBDA c : c.attempt = a)

\* C28: with codec preference auto a fallback is not remembered: every
\* attempt, also one that follows an attempt recovered by the fallback codec,
\* invokes the preferred codec first and the fallback codec only after that
\* invocation failed; each attempt makes one or two encode invocations, and
\* the entries of one log may record different codecs.
C28_FallbackNotRemembered ==
    codecs.fallback # None =>
        \A k \in 1..Len(calls) :
            LET made == CallSeq(calls[k].attempt) IN
            /\ Len(made) \in {1, 2}
            /\ made[1].chosen_vcodec = codecs.preferred
            /\ Len(made) = 2 =>
                  /\ made[1].outcome # "ok"
                  /\ Some(made[2].chosen_vcodec) = codecs.fallback
            /\ (made[1].outcome # "ok" /\ made[1].attempt <= Len(attempts)) => Len(made) = 2

\* Witness of C28: a returned log whose first entry records the fallback
\* codec, whose second records the preferred codec and whose third records
\* the fallback codec again.
C28_Witness ==
    /\ result # None
    /\ codecs.fallback # None
    /\ Len(attempts) >= 3
    /\ Some(attempts[1].video_codec) = codecs.fallback
    /\ attempts[2].video_codec = codecs.preferred
    /\ Some(attempts[3].video_codec) = codecs.fallback
    /\ Len(CallSeq(1)) = 2
    /\ Len(CallSeq(2)) = 1

\* Encode invocations made in stage s.
StageCalls(s) == {k \in 1..Len(calls) : calls[k].stage = s}

\* Attempts begun in stage s, logged or not.
StageAttemptsBegun(s) == {calls[k].attempt : k \in StageCalls(s)}

\* The resources one run may use.
WithinLadder ==
    /\ Cardinality(StageAttemptsBegun(1)) <= 5
    /\ Cardinality(StageAttemptsBegun(2)) <= 5
    /\ Cardinality(StageAttemptsBegun(3)) <= 1
    /\ Cardinality(StageAttempts(1)) <= 5
    /\ Cardinality(StageAttempts(2)) <= 5
    /\ Cardinality(StageAttempts(3)) <= 1
    /\ Len(attempts) <= 11
    /\ Len(calls) <= 22
    /\ stage \in 0..3

\* Once the call has returned or raised, nothing more is encoded or logged.
StaysTerminated ==
    Terminated => (Terminated' /\ UNCHANGED <<calls, attempts, result, error>>)

\* C29: for every valid configuration and probe result the search
\* terminates, returning a result or raising, after at most 5 stage-1
\* attempts, 5 stage-2 attempts and 1 stage-3 attempt (at most 11 log
\* entries), which is at most 22 encode invocations when every attempt needs
\* the codec fallback.
C29_Terminates ==
    /\ <>Terminated
    /\ []WithinLadder
    /\ [][StaysTerminated]_vars
    /\ [](Terminated => (result = None) # (error = None))

\* Witness of C29: a call has returned after 5 stage-1 attempts, 5 stage-2
\* attempts and the stage-3 attempt, each of which needed the fallback:
\* 11 log entries and 22 encode invocations.
C29_Witness ==
    /\ pc = "returned"
    /\ Cardinality(StageAttempts(1)) = 5
    /\ Cardinality(StageAttempts(2)) = 5
    /\ Cardinality(StageAttempts(3)) = 1
    /\ Len(calls) = 22
    /\ \A i \in 1..Len(attempts) : Some(attempts[i].video_codec) = codecs.fallback

\* C30: once control has left the with statements, on every path, also after
\* a download that failed inside PreparedInput.__enter__ and after an upload
\* that failed inside PreparedOutput.__exit__, no temp directory created by
\* either __enter__ remains.
C30_TempDirsRemoved ==
    pc \in {"returned", "raised"} => ~inTemp /\ ~outTemp

====
